---- MODULE Spec2Model ----
(***************************************************************************)
(* Model of the asyncio load tester, .context/scripts/load-test.py.        *)
(*                                                                         *)
(* One LoadTester object is run once by main().  The event loop is         *)
(* cooperative: a coroutine runs from one suspending await to the next     *)
(* without interleaving, so each action below is one such slice.  Time is  *)
(* the wall clock of time.time() in whole seconds; computation is          *)
(* instantaneous on that scale, so the clock advances only while a timer   *)
(* is pending and no coroutine is ready to run, except that the admission  *)
(* loop of run_duration_test, which never suspends, spins while it passes. *)
(*                                                                         *)
(* Spec is a run of main(), with the operator free to press Ctrl-C;        *)
(* FairSpec adds the fairness of the event loop; FunSpec calls the pure    *)
(* methods percentile and calculate_statistics on lists drawn from small   *)
(* sets.                                                                   *)
(***************************************************************************)
EXTENDS Integers, Sequences, FiniteSets, TLC

\* ---- bounds of the model ------------------------------------------------
MaxConcurrent == 2
MaxRequests == 3
MaxDuration == 1
MaxAdmit == 2
MaxTimeout == 1
\* direct calls of the pure methods: list lengths and values
MaxLen == 3
MaxValue == 3

\* ---- program constants --------------------------------------------------
None == -99
GetTimeout == 1
\* save_report keeps the last records only
RawResultsKept == 100
ErrorsKept == 50

\* command-line values: argparse type=int accepts any integer
Concurrents == -1 .. MaxConcurrent
Requests == -1 .. MaxRequests
Durations == {None} \cup (-1 .. MaxDuration)
Timeouts == 1 .. MaxTimeout
\* --requests next to --duration: one negative and one positive count only
RequestsWith(d) == IF d = None THEN Requests ELSE {-1, 1}

\* what the server can answer: (status, body length)
Responses == {[status_code |-> 200, content_length |-> 5],
              [status_code |-> 500, content_length |-> 0]}
\* how one session.get can end
Kinds == {"Success", "Timeout", "TransportError"}

VARIABLES
    concurrent, total_requests, duration, timeout,  \* self.* configuration
    now,                                            \* time.time()
    pc,                                             \* position of run()
    start_time, end_time,                           \* self.start_time, self.end_time
    deadline,                                       \* local end_time of run_duration_test
    request_id,                                     \* admission counter of run_duration_test
    queue, unfinished,                              \* request_queue and its unfinished-task count
    sem,                                            \* semaphore value
    workers,                                        \* worker tasks of run_duration_test
    i, tasks, awaited, pending,                     \* run_count_test: loop index, task list, gathered ids, tasks not yet run
    inflight,                                       \* make_request calls awaiting their response
    results, errors,                                \* self.results, self.errors
    stats,                                          \* return values of calculate_statistics, one per call
    reports,                                        \* what print_report and save_report rendered
    interrupt,                                      \* what became of the operator's Ctrl-C
    arg, ret                                        \* a direct call of a pure method and its result

config == <<concurrent, total_requests, duration, timeout>>
durvars == <<deadline, request_id, queue, unfinished, sem, workers>>
cntvars == <<i, tasks, awaited, pending>>
callvars == <<arg, ret>>
vars == <<concurrent, total_requests, duration, timeout, now, pc, start_time,
          end_time, deadline, request_id, queue, unfinished, sem, workers,
          i, tasks, awaited, pending, inflight, results, errors, stats,
          reports, interrupt, arg, ret>>

\* ---- helpers ------------------------------------------------------------
Min(a, b) == IF a <= b THEN a ELSE b
\* s[:k] and s[k:] for k >= 0
Take(s, k) == SubSeq(s, 1, Min(k, Len(s)))
Drop(s, k) == SubSeq(s, Min(k, Len(s)) + 1, Len(s))
Range(s) == {s[k] : k \in 1 .. Len(s)}
\* range(k) as a set
PyRange(k) == 0 .. (k - 1)

\* `if self.duration:` - None and 0 are both falsy
DurationBound == duration # None /\ duration # 0

\* ---- make_request -------------------------------------------------------
\* the `except Exception` clause is missing: only TimeoutError is caught
Caught_OnlyTimeout(kind) == kind = "Timeout"

\* the except clauses of make_request: which failures become error values
Caught(kind) == kind \in {"Timeout", "TransportError"}

\* the 'error' field: the literal 'Timeout', or str(e)
ErrorMessage(kind) == IF kind = "Timeout" THEN "Timeout" ELSE "Connection refused"

ResultRec(id, start, resp) ==
    [request_id |-> id, status_code |-> resp.status_code,
     response_time |-> now - start, content_length |-> resp.content_length,
     timestamp |-> now]

\* a failure carries a status code as well
ErrorRec_WithStatus(id, start, kind) ==
    [request_id |-> id, error |-> ErrorMessage(kind), status_code |-> 0,
     response_time |-> now - start, timestamp |-> now]

ErrorRec(id, start, kind) ==
    [request_id |-> id, error |-> ErrorMessage(kind),
     response_time |-> now - start, timestamp |-> now]

\* session.get with ClientTimeout(total=self.timeout): a response or a
\* transport failure arrives within the timeout, the timeout fires at it
CanEnd(start, kind) ==
    IF kind = "Timeout" THEN now - start >= timeout ELSE now - start <= timeout

\* the request returned a value (it did not raise out of make_request)
Returned(kind) == kind = "Success" \/ Caught(kind)

\* a response with status 400 or above is recorded as an error
Record_ServerErrorFails(id, start, kind, resp) ==
    /\ results' = IF kind = "Success" /\ resp.status_code < 400
                  THEN Append(results, ResultRec(id, start, resp)) ELSE results
    /\ errors' = IF kind = "Success" /\ resp.status_code >= 400
                 THEN Append(errors, [request_id |-> id, error |-> "HTTP error",
                                      response_time |-> now - start, timestamp |-> now])
                 ELSE IF kind # "Success" /\ Caught(kind)
                 THEN Append(errors, ErrorRec(id, start, kind)) ELSE errors

\* self.results.append / self.errors.append of make_request
Record(id, start, kind, resp) ==
    /\ results' = IF kind = "Success"
                  THEN Append(results, ResultRec(id, start, resp)) ELSE results
    /\ errors' = IF kind # "Success" /\ Caught(kind)
                 THEN Append(errors, ErrorRec(id, start, kind)) ELSE errors

\* ---- calculate_statistics -----------------------------------------------
\* a Python float quotient, kept exact: the fraction n/d; two fractions are
\* the same number when they cross-multiply to the same product
Ratio(n, d) == [num |-> n, den |-> d]
SameRatio(a, b) == a.num * b.den = b.num * a.den

RECURSIVE SumSeq(_)
SumSeq(s) == IF s = << >> THEN 0 ELSE Head(s) + SumSeq(Tail(s))
MinOf(s) == CHOOSE x \in Range(s) : \A y \in Range(s) : x <= y
MaxOf(s) == CHOOSE x \in Range(s) : \A y \in Range(s) : x >= y

\* sorted(data)
Sorted(s) == SortSeq(s, LAMBDA a, b : a < b)

\* statistics.mean and statistics.median
Mean(s) == Ratio(SumSeq(s), Len(s))
Median(s) ==
    LET n == Len(s)
        Middle(t) == IF n % 2 = 1 THEN Ratio(t[(n + 1) \div 2], 1)
                     ELSE Ratio(t[n \div 2] + t[n \div 2 + 1], 2)
    IN CHOOSE m \in {Middle(t) : t \in {Sorted(s)}} : TRUE

\* the index takes the last element when it reaches the length
percentile_NoClamp(data, p) ==
    LET At(sorted_data) ==
            LET index == (p * Len(sorted_data)) \div 100
            IN sorted_data[IF index >= Len(sorted_data) THEN 1 ELSE index + 1]
    IN CHOOSE r \in {At(sorted_data) : sorted_data \in {Sorted(data)}} : TRUE

\* percentile: sorted_data[min(index, len - 1)], indices from 0
percentile(data, p) ==
    LET At(sorted_data) ==
            LET index == (p * Len(sorted_data)) \div 100
            IN sorted_data[Min(index, Len(sorted_data) - 1) + 1]
    IN CHOOSE r \in {At(sorted_data) : sorted_data \in {Sorted(data)}} : TRUE

\* every code seen is counted once, however often it occurs
count_status_codes_Presence(status_codes) ==
    [code \in Range(status_codes) |-> 1]

\* count_status_codes: a dict from each code seen to its count
count_status_codes(status_codes) ==
    [code \in Range(status_codes) |->
        Cardinality({k \in DOMAIN status_codes : status_codes[k] = code})]

\* calculate_statistics returns None
NoStats == [data |-> FALSE]

\* the counters are returned even when there is no success
CalculateStatistics_NoGuard(res, errs, t0, t1) ==
    [data |-> TRUE,
     total_time |-> t1 - t0,
     total_requests |-> Len(res) + Len(errs),
     successful_requests |-> Len(res),
     failed_requests |-> Len(errs)]

\* p99 is taken at the 90th percentile
Statistics_P99Low(response_times, status_codes, content_lengths, total_time, total, successful) ==
    [data |-> TRUE,
     total_time |-> total_time,
     total_requests |-> total,
     successful_requests |-> successful,
     failed_requests |-> total - successful,
     success_rate |-> IF total > 0 THEN Ratio(successful * 100, total) ELSE Ratio(0, 1),
     requests_per_second |-> IF total_time > 0 THEN Ratio(successful, total_time)
                             ELSE Ratio(0, 1),
     response_time |-> [min |-> MinOf(response_times),
                        max |-> MaxOf(response_times),
                        mean |-> Mean(response_times),
                        median |-> Median(response_times),
                        p95 |-> percentile(response_times, 95),
                        p99 |-> percentile(response_times, 90)],
     content_length |-> [min |-> MinOf(content_lengths),
                         max |-> MaxOf(content_lengths),
                         mean |-> Mean(content_lengths)],
     status_codes |-> count_status_codes(status_codes)]

\* the dict built from the three lists of the successes
Statistics(response_times, status_codes, content_lengths, total_time, total, successful) ==
    [data |-> TRUE,
     total_time |-> total_time,
     total_requests |-> total,
     successful_requests |-> successful,
     failed_requests |-> total - successful,
     success_rate |-> IF total > 0 THEN Ratio(successful * 100, total) ELSE Ratio(0, 1),
     requests_per_second |-> IF total_time > 0 THEN Ratio(successful, total_time)
                             ELSE Ratio(0, 1),
     response_time |-> [min |-> MinOf(response_times),
                        max |-> MaxOf(response_times),
                        mean |-> Mean(response_times),
                        median |-> Median(response_times),
                        p95 |-> percentile(response_times, 95),
                        p99 |-> percentile(response_times, 99)],
     content_length |-> [min |-> MinOf(content_lengths),
                         max |-> MaxOf(content_lengths),
                         mean |-> Mean(content_lengths)],
     status_codes |-> count_status_codes(status_codes)]

\* the three list comprehensions are each evaluated once, by binding them
CalculateStatistics(res, errs, t0, t1) ==
    IF res = << >> THEN NoStats
    ELSE CHOOSE s \in
             {Statistics(response_times, status_codes, content_lengths,
                         t1 - t0, Len(res) + Len(errs), Len(res)) :
                  response_times \in {[k \in DOMAIN res |-> res[k].response_time]},
                  status_codes \in {[k \in DOMAIN res |-> res[k].status_code]},
                  content_lengths \in {[k \in DOMAIN res |-> res[k].content_length]}} :
             TRUE

\* ---- construction -------------------------------------------------------
NewWorker == [st |-> "new", id |-> None, since |-> None]

Init ==
    /\ concurrent \in Concurrents
    /\ duration \in Durations
    /\ total_requests \in RequestsWith(duration)
    /\ timeout \in Timeouts
    /\ now = 0
    /\ pc = "idle"
    /\ start_time = None /\ end_time = None
    /\ deadline = None
    /\ request_id = 0
    /\ queue = << >> /\ unfinished = 0
    /\ sem = 0
    /\ workers = << >>
    /\ i = 0 /\ tasks = << >> /\ awaited = {} /\ pending = {}
    /\ inflight = {}
    /\ results = << >> /\ errors = << >>
    /\ stats = << >>
    /\ reports = << >>
    /\ interrupt = "none"
    /\ arg = None /\ ret = << >>

\* print_report: the statistics, or the no-data message when there are none
PrintReport(t1) ==
    \E s \in {CalculateStatistics(results, errors, start_time, t1)} :
    /\ stats' = Append(stats, s)
    /\ reports' = Append(reports, IF s.data THEN [kind |-> "printed", stats |-> s]
                                            ELSE [kind |-> "nodata"])

\* run(): end of the test, then print_report
Finish ==
    /\ pc' = "done"
    /\ end_time' = now
    /\ PrintReport(now)

\* ---- run_duration_test --------------------------------------------------
WorkerIds == DOMAIN workers

\* one worker more than the semaphore has permits
DurationStart_ExtraWorker ==
    /\ pc = "idle" /\ DurationBound
    /\ start_time' = now
    /\ deadline' = now + duration
    /\ IF concurrent < 0
       THEN \* asyncio.Semaphore raises ValueError; run() prints and exits 1
            /\ pc' = "failed"
            /\ UNCHANGED <<sem, workers>>
       ELSE /\ sem' = concurrent
            /\ workers' = [w \in 1 .. concurrent + 1 |-> NewWorker]
            /\ pc' = "admit"
    /\ UNCHANGED <<config, callvars, interrupt, now, end_time, request_id, queue, unfinished,
                   cntvars, inflight, results, errors, stats, reports>>

DurationStart ==
    /\ pc = "idle" /\ DurationBound
    /\ start_time' = now
    /\ deadline' = now + duration
    /\ IF concurrent < 0
       THEN \* asyncio.Semaphore raises ValueError; run() prints and exits 1
            /\ pc' = "failed"
            /\ UNCHANGED <<sem, workers>>
       ELSE /\ sem' = concurrent
            /\ workers' = [w \in 1 .. concurrent |-> NewWorker]
            /\ pc' = "admit"
    /\ UNCHANGED <<config, callvars, interrupt, now, end_time, request_id, queue, unfinished,
                   cntvars, inflight, results, errors, stats, reports>>

\* the deadline test is off by one: `<=` for `<`
Admit_AtDeadline ==
    /\ pc = "admit" /\ now <= deadline
    /\ request_id < MaxAdmit
    /\ queue' = Append(queue, request_id)
    /\ unfinished' = unfinished + 1
    /\ request_id' = request_id + 1
    /\ UNCHANGED <<config, callvars, interrupt, now, pc, start_time, end_time, deadline, sem,
                   workers, cntvars, inflight, results, errors, stats, reports>>

\* one iteration of `while time.time() < end_time`: put never suspends
Admit ==
    /\ pc = "admit" /\ now < deadline
    /\ request_id < MaxAdmit
    /\ queue' = Append(queue, request_id)
    /\ unfinished' = unfinished + 1
    /\ request_id' = request_id + 1
    /\ UNCHANGED <<config, callvars, interrupt, now, pc, start_time, end_time, deadline, sem,
                   workers, cntvars, inflight, results, errors, stats, reports>>

\* join() waits for a task_done even when nothing is unfinished
AdmitEnd_JoinAlwaysWaits ==
    /\ pc = "admit" /\ ~(now < deadline)
    /\ pc' = IF unfinished > 0 THEN "join" ELSE "blocked"
    /\ UNCHANGED <<config, callvars, interrupt, now, start_time, end_time, durvars, cntvars,
                   inflight, results, errors, stats, reports>>

\* the loop ends; join() suspends only if something is unfinished
AdmitEnd ==
    /\ pc = "admit" /\ ~(now < deadline)
    /\ pc' = IF unfinished > 0 THEN "join" ELSE "gather"
    /\ UNCHANGED <<config, callvars, interrupt, now, start_time, end_time, durvars, cntvars,
                   inflight, results, errors, stats, reports>>

\* the driver does not wait for the queue to be worked off
JoinReturn_NoWait ==
    /\ pc = "join"
    /\ pc' = "gather"
    /\ UNCHANGED <<config, callvars, interrupt, now, start_time, end_time, durvars, cntvars,
                   inflight, results, errors, stats, reports>>

\* join() returns; the finally block cancels the workers and gathers them
JoinReturn ==
    /\ pc = "join" /\ unfinished = 0
    /\ pc' = "gather"
    /\ UNCHANGED <<config, callvars, interrupt, now, start_time, end_time, durvars, cntvars,
                   inflight, results, errors, stats, reports>>

\* put() yields to the event loop: a worker runs while ids are admitted
WorkerStart_WhileAdmitting(w) ==
    /\ pc \in {"admit", "join"} /\ workers[w].st = "new"
    /\ \A v \in WorkerIds : v < w => workers[v].st # "new"
    /\ workers' = [workers EXCEPT ![w] = [st |-> "get", id |-> None, since |-> now]]
    /\ UNCHANGED <<config, callvars, interrupt, now, pc, start_time, end_time, deadline, request_id,
                   queue, unfinished, sem, cntvars, inflight, results, errors, stats, reports>>

\* a worker task runs for the first time and waits on the queue; the loop
\* runs the tasks in the order they were created
WorkerStart(w) ==
    /\ pc = "join" /\ workers[w].st = "new"
    /\ \A v \in WorkerIds : v < w => workers[v].st # "new"
    /\ workers' = [workers EXCEPT ![w] = [st |-> "get", id |-> None, since |-> now]]
    /\ UNCHANGED <<config, callvars, interrupt, now, pc, start_time, end_time, deadline, request_id,
                   queue, unfinished, sem, cntvars, inflight, results, errors, stats, reports>>

\* queue.get() hands out the head of the queue and leaves it there
WorkerGet_NoDequeue(w) ==
    /\ pc = "join" /\ workers[w].st = "get" /\ queue # << >>
    /\ queue' = queue
    /\ IF sem > 0
       THEN /\ sem' = sem - 1
            /\ workers' = [workers EXCEPT ![w] = [st |-> "req", id |-> Head(queue), since |-> now]]
            /\ inflight' = inflight \cup {[request_id |-> Head(queue), start |-> now]}
       ELSE /\ workers' = [workers EXCEPT ![w] = [st |-> "sem", id |-> Head(queue), since |-> now]]
            /\ UNCHANGED <<sem, inflight>>
    /\ UNCHANGED <<config, callvars, interrupt, now, pc, start_time, end_time, deadline, request_id,
                   unfinished, cntvars, results, errors, stats, reports>>

\* queue.get() returns an id; `async with semaphore`; make_request starts
WorkerGet(w) ==
    /\ pc = "join" /\ workers[w].st = "get" /\ queue # << >>
    /\ queue' = Tail(queue)
    /\ IF sem > 0
       THEN /\ sem' = sem - 1
            /\ workers' = [workers EXCEPT ![w] = [st |-> "req", id |-> Head(queue), since |-> now]]
            /\ inflight' = inflight \cup {[request_id |-> Head(queue), start |-> now]}
       ELSE /\ workers' = [workers EXCEPT ![w] = [st |-> "sem", id |-> Head(queue), since |-> now]]
            /\ UNCHANGED <<sem, inflight>>
    /\ UNCHANGED <<config, callvars, interrupt, now, pc, start_time, end_time, deadline, request_id,
                   unfinished, cntvars, results, errors, stats, reports>>

\* the worker gives up although ids are still queued
WorkerTimeout_NonEmpty(w) ==
    /\ pc = "join" /\ workers[w].st = "get"
    /\ workers' = [workers EXCEPT ![w] = [st |-> "exited", id |-> None, since |-> None]]
    /\ UNCHANGED <<config, callvars, interrupt, now, pc, start_time, end_time, deadline, request_id,
                   queue, unfinished, sem, cntvars, inflight, results, errors, stats, reports>>

\* wait_for(queue.get(), timeout=1.0) raises TimeoutError: break
WorkerTimeout(w) ==
    /\ pc = "join" /\ workers[w].st = "get" /\ queue = << >>
    /\ now - workers[w].since >= GetTimeout
    /\ workers' = [workers EXCEPT ![w] = [st |-> "exited", id |-> None, since |-> None]]
    /\ UNCHANGED <<config, callvars, interrupt, now, pc, start_time, end_time, deadline, request_id,
                   queue, unfinished, sem, cntvars, inflight, results, errors, stats, reports>>

\* semaphore release: the permit goes to a worker waiting for it, if any
Waiting(ws) == {v \in DOMAIN ws : ws[v].st = "sem"}
Release(ws, w, next) ==
    IF Waiting(ws) = {}
    THEN [ws EXCEPT ![w] = next]
    ELSE LET v == CHOOSE x \in Waiting(ws) : \A y \in Waiting(ws) : x <= y
         IN [ws EXCEPT ![w] = next,
                       ![v] = [st |-> "req", id |-> ws[v].id, since |-> now]]
Handed(ws) ==
    IF Waiting(ws) = {} THEN {}
    ELSE LET v == CHOOSE x \in Waiting(ws) : \A y \in Waiting(ws) : x <= y
         IN {[request_id |-> ws[v].id, start |-> now]}

\* make_request ends inside a worker; task_done; back to queue.get()
WorkerComplete(w, kind, resp) ==
    /\ pc = "join" /\ workers[w].st = "req"
    /\ CanEnd(workers[w].since, kind)
    /\ Record(workers[w].id, workers[w].since, kind, resp)
    /\ inflight' = (inflight \ {[request_id |-> workers[w].id, start |-> workers[w].since]})
                       \cup Handed(workers)
    /\ sem' = IF Waiting(workers) = {} THEN sem + 1 ELSE sem
    /\ IF Returned(kind)
       THEN /\ unfinished' = unfinished - 1
            /\ workers' = Release(workers, w, [st |-> "get", id |-> None, since |-> now])
       ELSE \* the exception reaches the worker's except clauses: break
            /\ unfinished' = unfinished
            /\ workers' = Release(workers, w, [st |-> "exited", id |-> None, since |-> None])
    /\ UNCHANGED <<config, callvars, interrupt, now, pc, start_time, end_time, deadline, request_id,
                   queue, cntvars, stats, reports>>

\* worker.cancel(): CancelledError is raised at the worker's await, in the
\* order of the cancel calls
Live(w) == workers[w].st \in {"new", "get", "sem", "req"}

WorkerCancelled(w) ==
    /\ pc = "gather" /\ Live(w)
    /\ \A v \in WorkerIds : v < w => ~Live(v)
    /\ workers' = [workers EXCEPT ![w] = [st |-> "cancelled", id |-> None, since |-> None]]
    /\ inflight' = IF workers[w].st = "req"
                   THEN inflight \ {[request_id |-> workers[w].id, start |-> workers[w].since]}
                   ELSE inflight
    /\ sem' = IF workers[w].st = "req" THEN sem + 1 ELSE sem
    /\ UNCHANGED <<config, callvars, interrupt, now, pc, start_time, end_time, deadline, request_id,
                   queue, unfinished, cntvars, results, errors, stats, reports>>

\* gather(*workers) returns, the session closes, the run ends
DurationFinish ==
    /\ pc = "gather"
    /\ \A w \in WorkerIds : workers[w].st \in {"exited", "cancelled"}
    /\ Finish
    /\ UNCHANGED <<config, callvars, interrupt, now, start_time, durvars, cntvars, inflight,
                   results, errors>>

\* ---- run_count_test -----------------------------------------------------
InflightIds == {r.request_id : r \in inflight}
\* tasks of the gathered slice that have not finished
NotDone(ids) == ids \cap (pending \cup InflightIds)

CountStart ==
    /\ pc = "idle" /\ ~DurationBound
    /\ start_time' = now
    /\ IF concurrent < 0
       THEN \* asyncio.Semaphore raises ValueError; run() prints and exits 1
            /\ pc' = "failed"
            /\ sem' = sem
       ELSE /\ sem' = concurrent
            /\ pc' = "count_loop"
    /\ UNCHANGED <<config, callvars, interrupt, now, end_time, deadline, request_id, queue,
                   unfinished, workers, cntvars, inflight, results, errors, stats, reports>>

\* one iteration of `for i in range(self.total_requests)` up to its gather
CountCreate ==
    /\ pc = "count_loop" /\ i \in PyRange(total_requests)
    /\ pending' = pending \cup {i}
    /\ LET ts == Append(tasks, i) IN
         IF Len(ts) >= concurrent
         THEN IF Take(ts, concurrent) = << >>
              THEN \* gather() of nothing is already done: no suspension
                   /\ tasks' = Drop(ts, concurrent)
                   /\ i' = i + 1
                   /\ UNCHANGED <<pc, awaited>>
              ELSE /\ tasks' = ts
                   /\ awaited' = Range(Take(ts, concurrent))
                   /\ pc' = "count_gather"
                   /\ i' = i
         ELSE /\ tasks' = ts
              /\ i' = i + 1
              /\ UNCHANGED <<pc, awaited>>
    /\ UNCHANGED <<config, callvars, interrupt, now, start_time, end_time, durvars, inflight,
                   results, errors, stats, reports>>

\* the gather returns as soon as one of its tasks is done
CountGatherReturn_AnyDone ==
    /\ pc = "count_gather" /\ NotDone(awaited) # awaited
    /\ tasks' = Drop(tasks, concurrent)
    /\ awaited' = {}
    /\ i' = i + 1
    /\ pc' = "count_loop"
    /\ UNCHANGED <<config, callvars, interrupt, now, start_time, end_time, durvars, pending,
                   inflight, results, errors, stats, reports>>

\* gather(*tasks[:self.concurrent]) returns; tasks = tasks[self.concurrent:]
CountGatherReturn ==
    /\ pc = "count_gather" /\ NotDone(awaited) = {}
    /\ tasks' = Drop(tasks, concurrent)
    /\ awaited' = {}
    /\ i' = i + 1
    /\ pc' = "count_loop"
    /\ UNCHANGED <<config, callvars, interrupt, now, start_time, end_time, durvars, pending,
                   inflight, results, errors, stats, reports>>

\* the remaining tasks are not awaited
CountLoopEnd_NoFinalGather ==
    /\ pc = "count_loop" /\ i \notin PyRange(total_requests)
    /\ Finish
    /\ UNCHANGED <<config, callvars, interrupt, now, start_time, durvars, cntvars, inflight,
                   results, errors>>

\* the loop is exhausted: `if tasks: await gather(*tasks)`, else the run ends
CountLoopEnd ==
    /\ pc = "count_loop" /\ i \notin PyRange(total_requests)
    /\ IF tasks # << >>
       THEN /\ awaited' = Range(tasks)
            /\ pc' = "count_final"
            /\ UNCHANGED <<end_time, stats, reports>>
       ELSE /\ Finish
            /\ awaited' = awaited
    /\ UNCHANGED <<config, callvars, interrupt, now, start_time, durvars, i, tasks, pending,
                   inflight, results, errors>>

\* the final gather returns, the session closes, the run ends
CountFinish ==
    /\ pc = "count_final" /\ NotDone(awaited) = {}
    /\ Finish
    /\ UNCHANGED <<config, callvars, interrupt, now, start_time, durvars, cntvars, inflight,
                   results, errors>>

\* a created task runs for the first time: make_request sends its request;
\* the loop runs the tasks in the order they were created
TaskStart(id) ==
    /\ pc \in {"count_gather", "count_final"} /\ id \in pending
    /\ \A other \in pending : id <= other
    /\ pending' = pending \ {id}
    /\ inflight' = inflight \cup {[request_id |-> id, start |-> now]}
    /\ UNCHANGED <<config, callvars, interrupt, now, pc, start_time, end_time, durvars, i, tasks,
                   awaited, results, errors, stats, reports>>

\* make_request ends inside a task
TaskComplete(r, kind, resp) ==
    /\ pc \in {"count_gather", "count_final"} /\ r \in inflight
    /\ CanEnd(r.start, kind)
    /\ Record(r.request_id, r.start, kind, resp)
    /\ inflight' = inflight \ {r}
    /\ pc' = IF Returned(kind) THEN pc
             ELSE "failed"  \* gather re-raises; run() prints and exits 1
    /\ UNCHANGED <<config, callvars, interrupt, now, start_time, end_time, durvars, cntvars, stats, reports>>

\* ---- Ctrl-C -------------------------------------------------------------
\* every live worker has been cancelled; a permit held goes back
CancelAll(ws) ==
    [w \in DOMAIN ws |->
        IF ws[w].st \in {"new", "get", "sem", "req"}
        THEN [st |-> "cancelled", id |-> None, since |-> None] ELSE ws[w]]
Holders(ws) == {w \in DOMAIN ws : ws[w].st = "req"}

\* the handler reports while requests are still pending or in flight
InterruptHandled_NoQuiesce ==
    /\ interrupt = "none"
    /\ \/ pc \in {"admit", "count_loop"}
       \/ pc \in {"count_gather", "count_final"} /\ pending \cup InflightIds # {}
    /\ interrupt' = "handled"
    /\ end_time' = now
    /\ IF results # << >> THEN PrintReport(now) ELSE UNCHANGED <<stats, reports>>
    /\ pc' = IF pc \in {"admit", "count_loop"} THEN "done" ELSE "aborted"
    /\ UNCHANGED <<config, callvars, now, start_time, durvars, cntvars, inflight,
                   results, errors>>

\* KeyboardInterrupt reaches `except KeyboardInterrupt` of run(): it is raised
\* in the driver's own code (the admission loops), or in a task's step and
\* handed to the driver by the gather it awaits.  The tasks are cancelled
\* before the handler runs; CancelledError passes make_request's except
\* clauses, so a cancelled request appends nothing.
InterruptHandled ==
    /\ interrupt = "none"
    /\ \/ pc \in {"admit", "count_loop"}
       \/ pc \in {"count_gather", "count_final"} /\ pending \cup InflightIds # {}
    /\ interrupt' = "handled"
    /\ workers' = CancelAll(workers)
    /\ sem' = sem + Cardinality(Holders(workers))
    /\ inflight' = {}
    /\ pending' = {}
    /\ end_time' = now
    /\ IF results # << >> THEN PrintReport(now) ELSE UNCHANGED <<stats, reports>>
    \* from the driver's own code run() returns to main(); otherwise
    \* asyncio.run is already unwinding with the KeyboardInterrupt
    /\ pc' = IF pc \in {"admit", "count_loop"} THEN "done" ELSE "aborted"
    /\ UNCHANGED <<config, callvars, now, start_time, deadline, request_id, queue,
                   unfinished, i, tasks, awaited, results, errors>>

\* the interrupt cancels the driver at its await: run() gets CancelledError,
\* which neither except clause catches, and asyncio.run raises
\* KeyboardInterrupt in main()
InterruptCancelled ==
    /\ interrupt = "none"
    /\ pc \in {"join", "gather", "count_gather", "count_final"}
    /\ interrupt' = "cancelled"
    /\ workers' = CancelAll(workers)
    /\ sem' = sem + Cardinality(Holders(workers))
    /\ inflight' = {}
    /\ pending' = {}
    /\ pc' = "aborted"
    /\ UNCHANGED <<config, callvars, now, start_time, end_time, deadline, request_id,
                   queue, unfinished, i, tasks, awaited, results, errors, stats, reports>>

\* ---- main: save_report -------------------------------------------------
\* seq[-n:] for n > 0
\* the oldest n records are kept: seq[:n]
Last_Oldest(seq, n) == Take(seq, n)

Last(seq, n) == Drop(seq, Len(seq) - Min(n, Len(seq)))

\* save_report: nothing is written when there are no statistics
SaveReport ==
    \E s \in {CalculateStatistics(results, errors, start_time, end_time)} :
    /\ stats' = Append(stats, s)
    /\ reports' = IF s.data
                  THEN Append(reports, [kind |-> "file", stats |-> s,
                                        raw_results |-> Last(results, RawResultsKept),
                                        errors |-> Last(errors, ErrorsKept)])
                  ELSE reports

\* asyncio.run returned: `if args.output: tester.save_report(args.output)`
MainExit(output) ==
    /\ pc = "done"
    /\ pc' = "exit"
    /\ IF output THEN SaveReport ELSE UNCHANGED <<stats, reports>>
    /\ UNCHANGED <<config, callvars, interrupt, now, start_time, end_time, durvars,
                   cntvars, inflight, results, errors>>

\* ---- the clock ----------------------------------------------------------
\* some coroutine can run now
Ready ==
    \/ pc \in {"idle", "gather", "count_loop"}
    \/ pc = "admit" /\ ~(now < deadline)
    \/ /\ pc = "join"
       /\ \/ unfinished = 0
          \/ \E w \in WorkerIds :
               \/ workers[w].st = "new"
               \/ workers[w].st = "get" /\ queue # << >>
               \/ workers[w].st = "get" /\ now - workers[w].since >= GetTimeout
               \/ workers[w].st = "req" /\ now - workers[w].since >= timeout
    \/ /\ pc \in {"count_gather", "count_final"}
       /\ \/ pending # {}
          \/ NotDone(awaited) = {}
          \/ \E r \in inflight : now - r.start >= timeout

\* a deadline, a request timeout or a queue.get timeout is running
TimerPending ==
    \/ pc = "admit" /\ now < deadline
    \/ /\ pc \in {"join", "count_gather", "count_final"}
       /\ \/ inflight # {}
          \/ \E w \in WorkerIds : workers[w].st = "get"

Tick ==
    /\ TimerPending /\ ~Ready
    /\ now' = now + 1
    /\ UNCHANGED <<config, callvars, interrupt, pc, start_time, end_time, durvars, cntvars,
                   inflight, results, errors, stats, reports>>

\* ---- specification ------------------------------------------------------
Step ==
    \/ DurationStart
    \/ Admit
    \/ AdmitEnd
    \/ JoinReturn
    \/ \E w \in WorkerIds : WorkerStart(w)
    \/ \E w \in WorkerIds : WorkerGet(w)
    \/ \E w \in WorkerIds : WorkerTimeout(w)
    \/ \E w \in WorkerIds, kind \in Kinds, resp \in Responses : WorkerComplete(w, kind, resp)
    \/ \E w \in WorkerIds : WorkerCancelled(w)
    \/ DurationFinish
    \/ CountStart
    \/ CountCreate
    \/ CountGatherReturn
    \/ CountLoopEnd
    \/ CountFinish
    \/ \E id \in pending : TaskStart(id)
    \/ \E r \in inflight, kind \in Kinds, resp \in Responses : TaskComplete(r, kind, resp)
    \/ Tick

\* asyncio.run(tester.run()) and what follows it in main(); the operator
\* may press Ctrl-C at any time
Next ==
    \/ Step
    \/ InterruptHandled
    \/ InterruptCancelled
    \/ \E output \in BOOLEAN : MainExit(output)

Spec == Init /\ [][Next]_vars

\* the event loop runs every ready coroutine, every request ends by its
\* timeout, and the clock advances; nothing is assumed of the operator or
\* of what follows asyncio.run
FairSpec == Spec /\ WF_vars(Step)

\* ---- the pure methods, called directly ----------------------------------
Seqs(S, n) == UNION {[1 .. k -> S] : k \in 0 .. n}
OneToTen == [k \in 1 .. 10 |-> k]
TenToOne == [k \in 1 .. 10 |-> 11 - k]
\* percentiles whose float index int((p / 100) * n) is p * n div 100 for
\* every length n: 95 and 99, which calculate_statistics passes, and
\* those with p / 100 a binary fraction
Percentiles == {0, 25, 50, 75, 95, 99, 100}
PercentileArgs ==
    {[fn |-> "percentile", data |-> d, p |-> q] :
        d \in (Seqs(1 .. MaxValue, MaxLen) \ {<< >>}) \cup {OneToTen, TenToOne},
        q \in Percentiles}

\* the lists a run can leave in self.results and self.errors
SinkResults(c) ==
    [k \in DOMAIN c |->
        [request_id |-> k - 1, status_code |-> c[k][1].status_code,
         response_time |-> c[k][2], content_length |-> c[k][1].content_length,
         timestamp |-> c[k][2]]]
SinkErrors(first, n) ==
    [k \in 1 .. n |->
        [request_id |-> first + k - 1, error |-> "Timeout",
         response_time |-> MaxValue, timestamp |-> MaxValue]]
\* seven answers with status 200, then three timeouts
SevenOk == SinkResults([k \in 1 .. 7 |-> <<[status_code |-> 200, content_length |-> 5], 1>>])
ThreeTimeouts == SinkErrors(7, 3)

\* lists about as long as save_report keeps, and a little longer; the
\* latencies all differ and arrive in descending order
LongResults(n) ==
    SinkResults([k \in 1 .. n |->
                    <<IF k % 2 = 0 THEN [status_code |-> 200, content_length |-> 5]
                                   ELSE [status_code |-> 500, content_length |-> 0],
                      n + 1 - k>>])
ResultLengths == (1 .. MaxLen) \cup ((RawResultsKept - 1) .. (RawResultsKept + MaxLen))
ErrorLengths == (0 .. MaxLen) \cup ((ErrorsKept - 1) .. (ErrorsKept + MaxLen))

FunInit ==
    /\ concurrent = 1 /\ total_requests = 1 /\ duration = None /\ timeout = 1
    /\ now = 0 /\ pc = "call"
    /\ deadline = None /\ request_id = 0
    /\ queue = << >> /\ unfinished = 0 /\ sem = 0 /\ workers = << >>
    /\ i = 0 /\ tasks = << >> /\ awaited = {} /\ pending = {}
    /\ inflight = {}
    /\ stats = << >> /\ reports = << >>
    /\ interrupt = "none"
    /\ ret = << >>
    /\ start_time = 0
    /\ \/ /\ arg \in PercentileArgs
          /\ results = << >> /\ errors = << >> /\ end_time = 0
       \/ /\ arg = [fn |-> "calculate_statistics"]
          /\ end_time \in {0, MaxValue}
          /\ \/ \E c \in Seqs(Responses \X (1 .. MaxValue), MaxLen), n \in 0 .. MaxLen :
                  results = SinkResults(c) /\ errors = SinkErrors(Len(c), n)
             \/ results = SevenOk /\ errors = ThreeTimeouts
       \/ /\ arg = [fn |-> "save_report"]
          /\ end_time = MaxValue
          /\ \E n \in ResultLengths, m \in ErrorLengths :
                results = LongResults(n) /\ errors = SinkErrors(n, m)

CallPercentile ==
    /\ pc = "call" /\ arg.fn = "percentile"
    /\ ret' = <<percentile(arg.data, arg.p)>>
    /\ pc' = "returned"
    /\ UNCHANGED <<config, arg, interrupt, now, start_time, end_time, durvars, cntvars,
                   inflight, results, errors, stats, reports>>

CallCalculateStatistics ==
    /\ pc = "call" /\ arg.fn = "calculate_statistics"
    /\ ret' = <<CalculateStatistics(results, errors, start_time, end_time)>>
    /\ pc' = "returned"
    /\ UNCHANGED <<config, arg, interrupt, now, start_time, end_time, durvars, cntvars,
                   inflight, results, errors, stats, reports>>

CallSaveReport ==
    /\ pc = "call" /\ arg.fn = "save_report"
    /\ SaveReport
    /\ pc' = "returned"
    /\ UNCHANGED <<config, callvars, interrupt, now, start_time, end_time, durvars,
                   cntvars, inflight, results, errors>>

FunNext == CallPercentile \/ CallCalculateStatistics \/ CallSaveReport

FunSpec == FunInit /\ [][FunNext]_vars

\* ---- observations -------------------------------------------------------
\* request ids with an outcome in self.results or self.errors
RecordedIds == {results[k].request_id : k \in 1 .. Len(results)}
                   \cup {errors[k].request_id : k \in 1 .. Len(errors)}
RecordedCount == Len(results) + Len(errors)
\* requests admitted (queued, or created as a task) without an outcome yet
Outstanding ==
    IF DurationBound THEN request_id - RecordedCount
    ELSE Cardinality(pending \cup InflightIds)
\* ids handed to a worker or created as a task so far
Admitted == IF DurationBound THEN PyRange(request_id) ELSE PyRange(i) \cup Range(tasks)
\* ids a worker has taken from the queue and not finished
HeldIds == {workers[w].id : w \in {v \in WorkerIds : workers[v].st \in {"sem", "req"}}}
\* the batch of a count-bound request: ids k*c .. k*c+c-1 make batch k
Batch(id) == id \div concurrent
\* the run is over: self.end_time is set
Finished == end_time # None
\* the operator has not pressed Ctrl-C
Uninterrupted == interrupt = "none"
\* run() has returned to main()
Completed == pc \in {"done", "exit"}

\* ---- claims -------------------------------------------------------------

\* C1: in every reachable state, in both modes and for every configuration,
\* the number of make_request calls that have started and not yet recorded
\* an outcome is at most concurrency_limit.
C1_InFlightWithinLimit ==
    inflight # {} => Cardinality(inflight) <= concurrent

\* C2: an uninterrupted count-bound run is finished only when exactly the ids 0..n-1 have
\* each recorded one outcome, so |successes| + |errors| is the number of
\* those ids, and the statistics have been computed.
C2_CountRunRecordsAll ==
    (Finished /\ ~DurationBound /\ Uninterrupted) =>
        /\ RecordedIds = PyRange(total_requests)
        /\ RecordedCount = Cardinality(PyRange(total_requests))
        /\ pending = {} /\ inflight = {}
        /\ Len(stats) >= 1

C2_Witness ==
    /\ Finished /\ ~DurationBound /\ Uninterrupted
    /\ total_requests >= 3 /\ concurrent = 2
    /\ RecordedCount = total_requests
    /\ errors # << >> /\ results # << >>

\* C3: in a duration-bound run ids are put on the admission queue in
\* strictly increasing order starting at 0, and none is put once the clock
\* has reached start_time + duration.
C3_AdmissionOrderAndDeadline ==
    /\ [](/\ \A k \in 1 .. Len(queue) : queue[k] \in PyRange(request_id)
          /\ \A k \in 1 .. Len(queue) - 1 : queue[k] < queue[k + 1]
          /\ pc = "admit" => queue = [k \in 1 .. request_id |-> k - 1])
    /\ [][(request_id' # request_id \/ Len(queue') > Len(queue)) =>
            /\ DurationBound
            /\ queue' = Append(queue, request_id)
            /\ request_id' = request_id + 1
            /\ now < start_time + duration]_vars

C3_Witness ==
    /\ DurationBound /\ pc = "join"
    /\ request_id >= 2 /\ Len(queue) >= 2
    /\ now >= start_time + duration

\* C4: an uninterrupted duration-bound run finishes only when every id admitted before the
\* deadline, those still queued at the deadline included, has recorded an
\* outcome in results or errors; nothing admitted is dropped or aborted.
C4_DurationRunDrains ==
    (Finished /\ DurationBound /\ Uninterrupted) =>
        /\ RecordedIds = PyRange(request_id)
        /\ RecordedCount = request_id
        /\ queue = << >> /\ inflight = {} /\ unfinished = 0

C4_Witness ==
    /\ Finished /\ DurationBound /\ Uninterrupted
    /\ request_id > concurrent /\ RecordedCount = request_id
    /\ \E k \in 1 .. Len(results) : results[k].timestamp > deadline

\* C5: admission applies backpressure: the number of requests admitted
\* but not yet completed never exceeds concurrency_limit.
C5_Backpressure ==
    concurrent >= 1 => Outstanding <= concurrent

\* C6: a duration-bound run against an issuer of fixed latency L ends at
\* most one latency after the deadline: total_time <= duration + L.
C6_TotalTimeBound ==
    LET all == results \o errors IN
    (/\ Finished /\ DurationBound /\ all # << >>
     /\ \A k \in 1 .. Len(all) : all[k].response_time = all[1].response_time)
        => end_time - start_time <= duration + all[1].response_time

\* C7: with concurrency_limit <= 0, count <= 0 or duration <= 0 nothing is
\* ever admitted or issued, and the run ends failed, without statistics.
InvalidConfig ==
    \/ concurrent <= 0
    \/ total_requests <= 0
    \/ duration # None /\ duration <= 0

C7_ConfigRejected ==
    InvalidConfig =>
        /\ request_id = 0 /\ queue = << >>
        /\ pending = {} /\ inflight = {}
        /\ results = << >> /\ errors = << >>
        /\ ~Completed
        /\ \A k \in 1 .. Len(stats) : ~stats[k].data

\* C8: with concurrency_limit >= 1, in both modes, the run eventually
\* reaches Completed, unless the operator interrupts it.
C8_RunCompletes ==
    (concurrent >= 1) ~> (Completed \/ ~Uninterrupted)

C8_Witness ==
    /\ pc = "done" /\ Uninterrupted /\ concurrent >= 1
    /\ DurationBound /\ request_id >= 1
    /\ end_time > deadline
    /\ \E w \in WorkerIds : workers[w].st = "exited"

\* C9: a count-bound run whose concurrency_limit exceeds the request count,
\* and a duration-bound run whose deadline is reached before anything is
\* admitted, both eventually reach Completed, unless the operator
\* interrupts them.
C9_EdgeCasesComplete ==
    /\ (~DurationBound /\ concurrent > total_requests)
           ~> (Completed \/ ~Uninterrupted)
    /\ (DurationBound /\ pc = "admit" /\ ~(now < deadline) /\ request_id = 0)
           ~> (Completed \/ ~Uninterrupted)

C9_Witness ==
    /\ pc = "done" /\ Uninterrupted
    /\ \/ ~DurationBound /\ concurrent > total_requests /\ total_requests >= 1
                         /\ RecordedCount = total_requests
       \/ DurationBound /\ duration >= 1 /\ request_id = 0 /\ RecordedCount = 0

\* C10: a request that ends in Timeout or a transport error is recorded as
\* an error and the run goes on: every make_request that ends appends its
\* outcome (a failure to errors) and never makes the run fail.  (A request
\* cut short by Ctrl-C has not ended.)
C10_FailuresAreValues ==
    [][\A r \in inflight \ inflight' :
          interrupt' = interrupt =>
          /\ pc' # "failed"
          /\ \/ /\ results' = results
                /\ Len(errors') = Len(errors) + 1
                /\ errors'[Len(errors')].request_id = r.request_id
                /\ errors'[Len(errors')].error \in {"Timeout", "Connection refused"}
             \/ /\ errors' = errors
                /\ Len(results') = Len(results) + 1
                /\ results'[Len(results')].request_id = r.request_id]_vars

C10_Witness ==
    /\ pc = "done" /\ Uninterrupted
    /\ \E k \in 1 .. Len(errors) : errors[k].error = "Timeout"
    /\ \E k \in 1 .. Len(errors), m \in 1 .. Len(results) :
         /\ errors[k].error = "Connection refused"
         /\ results[m].request_id > errors[k].request_id

\* C11: once the operator has interrupted a run that has recorded a
\* success, the run has produced statistics over exactly the outcomes
\* recorded so far.  (That nothing is admitted after the interrupt holds:
\* both interrupt actions leave the admission loops.)
C11_InterruptedRunReports ==
    (~Uninterrupted /\ results # << >>) =>
        \E k \in 1 .. Len(stats) :
            /\ stats[k].data
            /\ stats[k].total_requests = RecordedCount
            /\ stats[k].successful_requests = Len(results)
            /\ stats[k].failed_requests = Len(errors)

C13_AllFailedRunReports ==
    (Completed /\ Uninterrupted /\ results = << >> /\ errors # << >>) =>
        \E k \in 1 .. Len(reports) :
            /\ reports[k].kind # "nodata"
            /\ reports[k].stats.total_requests = Len(errors)
            /\ reports[k].stats.failed_requests = Len(errors)
            /\ SameRatio(reports[k].stats.success_rate, Ratio(0, 1))

\* C14: while the success list is empty every call of calculate_statistics
\* has returned None, print_report has printed the no-data message only and
\* save_report has written nothing; and whatever report was rendered, was
\* rendered from statistics that exist.
C14_NoDataSignalled ==
    /\ results = << >> =>
          /\ \A k \in 1 .. Len(stats) : stats[k] = NoStats
          /\ \A k \in 1 .. Len(reports) : reports[k].kind = "nodata"
    /\ \A k \in 1 .. Len(reports) :
          reports[k].kind # "nodata" => reports[k].stats.data

C14_Witness ==
    /\ pc = "exit" /\ results = << >> /\ errors # << >>
    /\ stats = <<NoStats, NoStats>>
    /\ reports = <<[kind |-> "nodata"]>>

\* C15: for sink contents with at least one success calculate_statistics
\* returns total_requests = |successes| + |errors|, failed_requests =
\* |errors|, success_rate = |successes| / total_requests * 100, and a
\* histogram with one entry per status code seen among the successes, each
\* the number of successes with that code; seven 200s and three timeouts
\* give success_rate 70, failed_requests 3 and the histogram {200: 7}.
C15_TotalsAndHistogram ==
    (pc = "returned" /\ arg.fn = "calculate_statistics" /\ results # << >>) =>
        LET s == ret[1]
            total == Len(results) + Len(errors)
            HasCode(c) == LET Is(r) == r.status_code = c IN Len(SelectSeq(results, Is))
        IN /\ s.data
           /\ s.total_requests = total
           /\ s.successful_requests = Len(results)
           /\ s.failed_requests = Len(errors)
           /\ SameRatio(s.success_rate, Ratio(Len(results) * 100, total))
           /\ DOMAIN s.status_codes = {results[k].status_code : k \in DOMAIN results}
           /\ \A c \in DOMAIN s.status_codes : s.status_codes[c] = HasCode(c)
           /\ (results = SevenOk /\ errors = ThreeTimeouts) =>
                 /\ SameRatio(s.success_rate, Ratio(70, 1))
                 /\ s.failed_requests = 3
                 /\ s.status_codes = (200 :> 7)

C15_Witness ==
    /\ pc = "returned" /\ arg.fn = "calculate_statistics"
    /\ results = SevenOk /\ errors = ThreeTimeouts
    /\ ret[1].total_requests = 10

C17_OutcomeShapes ==
    /\ \A k \in 1 .. Len(results) :
          DOMAIN results[k] = {"request_id", "status_code", "response_time",
                               "content_length", "timestamp"}
    /\ \A k \in 1 .. Len(errors) :
          /\ DOMAIN errors[k] = {"request_id", "error", "response_time", "timestamp"}
          /\ errors[k].error \in {"Timeout", "Connection refused"}
    /\ \A k \in 1 .. Len(results), m \in 1 .. Len(errors) :
          results[k].request_id # errors[m].request_id

C17_Witness ==
    /\ ~DurationBound /\ pc = "count_final"
    /\ Len(results) >= 1 /\ Len(errors) >= 1
    /\ inflight # {}

\* C18: no two recorded outcomes, across results and errors, share a
\* request_id; every recorded, queued or in-flight id was admitted; and an
\* admitted id is dispatched to make_request at most once: an id in flight
\* is in flight once, is neither queued nor recorded, and no step sends out
\* an id that is in flight or recorded already.
C18_RequestIdUnique ==
    /\ [](/\ Cardinality(RecordedIds) = RecordedCount
          /\ RecordedIds \cup InflightIds \cup Range(queue) \cup pending \subseteq Admitted
          /\ Cardinality(InflightIds) = Cardinality(inflight)
          /\ InflightIds \cap (RecordedIds \cup Range(queue) \cup pending) = {}
          /\ HeldIds \cap (RecordedIds \cup Range(queue)) = {}
          /\ Cardinality(Range(queue)) = Len(queue))
    /\ [][\A r \in inflight' \ inflight :
            r.request_id \notin RecordedIds \cup InflightIds]_vars

C18_Witness ==
    /\ DurationBound /\ pc = "join" /\ concurrent = 2
    /\ request_id = 2 /\ RecordedCount = 1
    /\ Cardinality(inflight) = 1 /\ queue = << >>

\* C19: calculate_statistics runs at most once in a run, exactly once in an
\* uninterrupted run that has left main(), and only when every admitted
\* request has recorded its outcome or the run was interrupted.
C19_StatisticsOnce ==
    /\ Len(stats) <= 1
    /\ (pc = "exit" /\ Uninterrupted) => Len(stats) = 1
    /\ (stats # << >> /\ Uninterrupted) => Outstanding = 0

\* C20: when --duration is given, with or without --requests, only the
\* duration-bound test runs: the count-bound test never creates a task.
C20_DurationTakesPrecedence ==
    duration # None =>
        /\ pc \notin {"count_loop", "count_gather", "count_final"}
        /\ i = 0 /\ tasks = << >> /\ pending = {}

\* C21: the report that save_report writes carries the last
\* min(100, |successes|) successes and the last min(50, |errors|) errors,
\* each in arrival order, so at most 100 and 50 of them; and saving leaves
\* self.results and self.errors as they were.
C21_ReportTail ==
    /\ []((pc = "returned" /\ arg.fn = "save_report") =>
            /\ Len(reports) = 1 /\ reports[1].kind = "file"
            /\ LET kept == reports[1].raw_results
                   n == Len(results)
               IN /\ Len(kept) = Min(100, n)
                  /\ \A k \in 1 .. Len(kept) : kept[k] = results[n - Len(kept) + k]
            /\ LET kept == reports[1].errors
                   n == Len(errors)
               IN /\ Len(kept) = Min(50, n)
                  /\ \A k \in 1 .. Len(kept) : kept[k] = errors[n - Len(kept) + k])
    /\ [][reports' # reports => results' = results /\ errors' = errors]_vars

C21_Witness ==
    /\ pc = "returned" /\ arg.fn = "save_report"
    /\ Len(results) > 100 /\ Len(errors) > 50
    /\ Len(reports[1].raw_results) = 100 /\ Len(reports[1].errors) = 50
    /\ reports[1].raw_results[1].request_id = Len(results) - 100

\* C22: a response that was read is a success whatever its status: the
\* errors list holds timeouts and transport failures only, and statistics
\* count every record of results, those with status 500 included, in
\* successful_requests, success_rate and the status histogram.
C22_AnyStatusIsSuccess ==
    /\ \A k \in 1 .. Len(errors) : errors[k].error \in {"Timeout", "Connection refused"}
    /\ \A k \in 1 .. Len(stats) :
          stats[k].data =>
            /\ stats[k].successful_requests = Len(results)
            /\ SameRatio(stats[k].success_rate, Ratio(Len(results) * 100, RecordedCount))
            /\ \A m \in 1 .. Len(results) :
                  /\ results[m].status_code \in DOMAIN stats[k].status_codes
                  /\ stats[k].status_codes[results[m].status_code] =
                        Cardinality({j \in 1 .. Len(results) :
                                        results[j].status_code = results[m].status_code})

C22_Witness ==
    /\ pc = "done" /\ Uninterrupted
    /\ errors = << >> /\ Len(results) >= 2
    /\ \A m \in 1 .. Len(results) : results[m].status_code = 500
    /\ stats[1].data /\ stats[1].successful_requests = Len(results)
    /\ stats[1].status_codes[500] = Len(results)

\* C23: in a count-bound run with limit c >= 1 a request is in flight only
\* when every request of every earlier batch has recorded its outcome, and
\* all requests in flight at one instant are of the same batch.
C23_BatchBarrier ==
    (~DurationBound /\ concurrent >= 1) =>
        /\ \A r \in inflight : \A id \in 0 .. r.request_id :
              Batch(id) < Batch(r.request_id) => id \in RecordedIds
        /\ \A r1, r2 \in inflight : Batch(r1.request_id) = Batch(r2.request_id)
        /\ \A id \in pending : \A r \in inflight : Batch(id) >= Batch(r.request_id)

C23_Witness ==
    /\ ~DurationBound /\ concurrent = 2 /\ total_requests = 3
    /\ pc = "count_final"
    /\ InflightIds = {2} /\ RecordedIds = {0, 1}

\* C24: in a duration-bound run, while the admission loop runs no worker
\* has run, nothing is in flight and nothing is recorded; every request
\* starts, and every outcome is recorded, at or after the deadline.
C24_AdmissionNeverSuspends ==
    DurationBound =>
        /\ pc = "admit" =>
              /\ \A w \in WorkerIds : workers[w].st = "new"
              /\ Len(queue) = request_id
              /\ inflight = {} /\ results = << >> /\ errors = << >>
        /\ \A r \in inflight : r.start >= deadline
        /\ \A k \in 1 .. Len(results) : results[k].timestamp >= deadline
        /\ \A k \in 1 .. Len(errors) : errors[k].timestamp >= deadline

C24_Witness ==
    /\ DurationBound /\ pc = "join" /\ duration >= 1
    /\ request_id = 2 /\ Len(queue) = 1
    /\ Len(results) = 1 /\ results[1].timestamp >= start_time + duration

\* C25: in a duration-bound run, once the semaphore exists, its free
\* permits plus the workers inside make_request make concurrency_limit,
\* there are concurrency_limit workers holding at most one permit each, and
\* no worker that has taken an id waits for a permit.
C25_PermitsBalance ==
    (DurationBound /\ pc \notin {"idle", "failed"}) =>
        /\ sem + Cardinality(Holders(workers)) = concurrent
        /\ sem >= 0
        /\ Len(workers) = concurrent
        /\ Cardinality(inflight) = Cardinality(Holders(workers))
        /\ Waiting(workers) = {}

C25_Witness ==
    /\ DurationBound /\ pc = "join" /\ concurrent = 2
    /\ sem = 0 /\ Holders(workers) = {1, 2}

\* C26: statistics returned by calculate_statistics are consistent:
\* successful_requests + failed_requests = total_requests, the counts of
\* the status histogram sum to successful_requests, p95 and p99 are
\* response times of recorded successes, and min <= p95 <= p99 <= max.
C26_StatisticsConsistent ==
    (pc = "returned" /\ arg.fn \in {"calculate_statistics", "save_report"}) =>
        \A s \in Range(ret) \cup Range(stats) :
            (s.data =>
                LET rt == s.response_time
                    times == {results[k].response_time : k \in 1 .. Len(results)}
                    h == s.status_codes
                IN /\ s.successful_requests + s.failed_requests = s.total_requests
                   /\ Cardinality(UNION {{<<c, j>> : j \in 1 .. h[c]} : c \in DOMAIN h})
                         = s.successful_requests
                   /\ rt.p95 \in times /\ rt.p99 \in times
                   /\ rt.min \in times /\ rt.max \in times
                   /\ rt.min <= rt.p95 /\ rt.p95 <= rt.p99 /\ rt.p99 <= rt.max)

C26_Witness ==
    /\ pc = "returned" /\ arg.fn = "save_report"
    /\ stats[1].data /\ stats[1].total_requests > 150
    /\ stats[1].response_time.min < stats[1].response_time.p95
    /\ stats[1].response_time.p95 < stats[1].response_time.p99
    /\ stats[1].response_time.p99 < stats[1].response_time.max

====
